---- MODULE Spec2Model ----
(***************************************************************************)
(* FarmaCompara front end: the search state of the App component           *)
(* (handleSubmit) and the filter/sort projection (getFilteredProducts).    *)
(* The repository holds two versions of the component, src/App.tsx and a   *)
(* second App file; `build` says which of the two is running.              *)
(*                                                                         *)
(* Strings the code takes apart (keyword, Producto, Precio_Oferta) are     *)
(* sequences of one-character strings; strings it only compares or only    *)
(* builds are TLA+ strings.  Prices are numbers of hundredths, so that     *)
(* 12.50 is 1250.                                                          *)
(***************************************************************************)
EXTENDS Integers, Sequences, FiniteSets, TLC

VARIABLES build, keyword, productos, productosIsArray, isLoading, error,
          nameFilter, pharmacyFilter, priceFilter, offersFilter,
          inflight, issued, finalized, alertOpen

vars == <<build, keyword, productos, productosIsArray, isLoading, error,
          nameFilter, pharmacyFilter, priceFilter, offersFilter,
          inflight, issued, finalized, alertOpen>>

\* ------------------------------------------------------------------ bounds
\* submissions that reach axios.get in one behaviour
MaxRequests == 2
\* products in one response body
MaxProducts == 3

\* --------------------------------------------------------- string helpers
Digits == <<"0", "1", "2", "3", "4", "5", "6", "7", "8", "9">>

IsDigit(c) == \E i \in 1..Len(Digits) : Digits[i] = c

DigitVal(c) == (CHOOSE i \in 1..Len(Digits) : Digits[i] = c) - 1

\* \s of a regular expression, String.prototype.trim and parseFloat all
\* skip the same white space; the space is the one that occurs here
IsSpace(c) == c = " "

UpperCase == <<"A", "B", "C", "D", "E", "F", "G", "H", "I", "J", "K", "L", "M",
               "N", "O", "P", "Q", "R", "S", "T", "U", "V", "W", "X", "Y", "Z">>

LowerCase == <<"a", "b", "c", "d", "e", "f", "g", "h", "i", "j", "k", "l", "m",
               "n", "o", "p", "q", "r", "s", "t", "u", "v", "w", "x", "y", "z">>

toLowerCase(s) ==
    [i \in 1..Len(s) |->
        IF \E k \in 1..Len(UpperCase) : UpperCase[k] = s[i]
        THEN LowerCase[CHOOSE k \in 1..Len(UpperCase) : UpperCase[k] = s[i]]
        ELSE s[i]]

includes(s, t) ==
    \E i \in 1..(Len(s) - Len(t) + 1) : SubSeq(s, i, i + Len(t) - 1) = t

RECURSIVE SkipSpaces(_, _)
\* first index >= i of s that is not white space (Len(s) + 1 if none)
SkipSpaces(s, i) ==
    IF i <= Len(s) /\ IsSpace(s[i]) THEN SkipSpaces(s, i + 1) ELSE i

RECURSIVE SkipDigits(_, _)
\* first index >= i of s that is not a digit (Len(s) + 1 if none)
SkipDigits(s, i) ==
    IF i <= Len(s) /\ IsDigit(s[i]) THEN SkipDigits(s, i + 1) ELSE i

RECURSIVE LastNonSpace(_, _)
LastNonSpace(s, j) ==
    IF j >= 1 /\ IsSpace(s[j]) THEN LastNonSpace(s, j - 1) ELSE j

trim(s) == SubSeq(s, SkipSpaces(s, 1), LastNonSpace(s, Len(s)))

RECURSIVE DigitsValue(_, _, _)
\* value of the decimal digits s[i..j]
DigitsValue(s, i, j) ==
    IF j < i THEN 0 ELSE 10 * DigitsValue(s, i, j - 1) + DigitVal(s[j])

\* hundredths denoted by the fraction digits s[i..j]; digits beyond the
\* second are below the resolution of the model
FractionValue(s, i, j) ==
    (IF i <= j THEN 10 * DigitVal(s[i]) ELSE 0)
    + (IF i + 1 <= j THEN DigitVal(s[i + 1]) ELSE 0)

NaN == <<>>

\* parseFloat: white space is skipped, then the longest prefix that is a
\* decimal literal (digits, digits "." digits, "." digits) is converted;
\* NaN if there is none.  The result is <<hundredths>> or NaN.
parseFloat(s) ==
    LET b  == SkipSpaces(s, 1)
        e  == SkipDigits(s, b)
        fb == e + 1
        fe == IF e <= Len(s) /\ s[e] = "." THEN SkipDigits(s, fb) ELSE fb
    IN  IF e = b /\ fe = fb THEN NaN
        ELSE <<100 * DigitsValue(s, b, e - 1) + FractionValue(s, fb, fe - 1)>>

\* x || 0 for a number x: NaN and 0 are falsy
OrZero(x) == IF x = NaN THEN 0 ELSE x[1]

\* s.replace(/S\/\s*/, ''): the first "S/" and the white space after it
\* are removed, wherever they are in s
replaceSoles(s) ==
    LET hits == {i \in 1..(Len(s) - 1) : s[i] = "S" /\ s[i + 1] = "/"}
    IN  IF hits = {} THEN s
        ELSE LET i == CHOOSE h \in hits : \A g \in hits : h <= g
             IN  SubSeq(s, 1, i - 1) \o SubSeq(s, SkipSpaces(s, i + 2), Len(s))

\* s.match(/\d+(\.\d+)?/): <<matched text>>, or <<>> for null
matchNumber(s) ==
    LET starts == {i \in 1..Len(s) : IsDigit(s[i])}
    IN  IF starts = {} THEN <<>>
        ELSE LET b == CHOOSE h \in starts : \A g \in starts : h <= g
                 e == SkipDigits(s, b)
                 f == IF /\ e + 1 <= Len(s)
                         /\ s[e] = "."
                         /\ IsDigit(s[e + 1])
                      THEN SkipDigits(s, e + 1)
                      ELSE e
             IN  <<SubSeq(s, b, f - 1)>>

\* ------------------------------------------------------------ the builds
\* src/App.tsx and the second App file of the repository
Builds == {"App.tsx", "App2"}

\* ------------------------------------------------- getFilteredProducts
\* price of the filter callback in src/App.tsx
filterPriceApp(product) == OrZero(parseFloat(replaceSoles(product.Precio_Oferta)))

\* price of the filter callback in the second App file
filterPriceApp2(product) ==
    LET priceMatch == matchNumber(product.Precio_Oferta)
    IN  IF priceMatch # <<>> THEN parseFloat(priceMatch[1])[1] ELSE 0

filterPrice(b, product) ==
    IF b = "App.tsx" THEN filterPriceApp(product) ELSE filterPriceApp2(product)

\* priceA, priceB of the sort comparator (the same text in both files)
sortPrice(product) == OrZero(parseFloat(replaceSoles(product.Precio_Oferta)))

hasOffer(product) == product.Precio_Regular # "No disponible"

\* the filter callback; maxPrice is the slider's value in soles
keeps(b, product, nf, pf, maxPrice, of) ==
    /\ ~(nf # <<>> /\ ~includes(toLowerCase(product.Producto), toLowerCase(nf)))
    /\ ~(pf # "" /\ product.Farmacia # pf)
    /\ ~(filterPrice(b, product) > 100 * maxPrice)
    /\ ~(of /\ ~hasOffer(product))

RECURSIVE filter(_, _, _, _, _, _)
filter(b, list, nf, pf, maxPrice, of) ==
    IF list = <<>> THEN <<>>
    ELSE (IF keeps(b, Head(list), nf, pf, maxPrice, of) THEN <<Head(list)>> ELSE <<>>)
         \o filter(b, Tail(list), nf, pf, maxPrice, of)

\* the comparator (a, b) => priceA - priceB
compare(a, b) == sortPrice(a) - sortPrice(b)

RECURSIVE insert(_, _)
\* x is put behind every element that does not compare greater than it
insert(x, sorted) ==
    IF sorted = <<>> THEN <<x>>
    ELSE IF compare(Head(sorted), x) <= 0
         THEN <<Head(sorted)>> \o insert(x, Tail(sorted))
         ELSE <<x>> \o sorted

RECURSIVE sort(_)
\* Array.prototype.sort is stable: elements that compare equal keep their
\* order, so the result is the one of a stable insertion sort
sort(list) ==
    IF list = <<>> THEN <<>>
    ELSE insert(list[Len(list)], sort(SubSeq(list, 1, Len(list) - 1)))

getFilteredProducts(b, list, nf, pf, maxPrice, of) ==
    sort(filter(b, list, nf, pf, maxPrice, of))

\* ------------------------------------------------------- inputs of the model
\* texts typed into the search box: "", " ", "jabon", " dove "
Keywords ==
    { <<>>, <<" ">>, <<"j", "a", "b", "o", "n">>, <<" ", "d", "o", "v", "e", " ">> }

\* texts typed into "Nombre contiene": "", "dO", "ea"
NameFilters == { <<>>, <<"d", "O">>, <<"e", "a">> }

\* options of the select that are used here; "" is "Todas"
PharmacyFilters == {"", "Inkafarma", "Mifarma"}

\* positions of the range input (0 to 300 in steps of 5) that are used here
PriceFilters == {0, 10, 300}

\* product records the back end answers with (Imagen_URL is only displayed)
Catalog ==
    { [Producto |-> <<"D", "o", "v", "e">>,
       Precio_Oferta |-> <<"S", "/", " ", "1", "2", ".", "5", "0">>,
       Precio_Regular |-> "S/ 20", Enlace |-> "l1", Farmacia |-> "Inkafarma"],
      [Producto |-> <<"N", "i", "v", "e", "a">>,
       Precio_Oferta |-> <<"S", "/", " ", "8">>,
       Precio_Regular |-> "No disponible", Enlace |-> "l2", Farmacia |-> "Mifarma"],
      [Producto |-> <<"D", "O", "V", "E">>,
       Precio_Oferta |-> <<"S", "/", "8">>,
       Precio_Regular |-> "S/ 10", Enlace |-> "l3", Farmacia |-> "Inkafarma"],
      [Producto |-> <<"R", "e", "x", "o", "n", "a">>,
       Precio_Oferta |-> <<"C", "o", "n", "s", "u", "l", "t", "a", "r">>,
       Precio_Regular |-> "No disponible", Enlace |-> "l4", Farmacia |-> "Mifarma"],
      [Producto |-> <<"L", "u", "x">>,
       Precio_Oferta |-> <<"S", "/", ".", " ", "3", "0">>,
       Precio_Regular |-> "S/. 35", Enlace |-> "l5", Farmacia |-> "BoticasPeru"] }

\* arrays of products with distinct Enlace
ProductLists ==
    { l \in UNION { [1..n -> Catalog] : n \in 0..MaxProducts } :
        \A i, j \in 1..Len(l) : i # j => l[i] # l[j] }

\* response.data of a 2xx answer: the object has a data array or has none
Bodies ==
    { [hasData |-> TRUE, data |-> l] : l \in ProductLists }
    \cup { [hasData |-> FALSE, data |-> <<>>] }

\* status codes of answers that axios rejects
Statuses == {404, 500}

\* what axios rejects with: err.code, and err.response.status or 0 when
\* there is no err.response
Errors ==
    { [code |-> "ECONNABORTED", status |-> 0], [code |-> "ERR_NETWORK", status |-> 0] }
    \cup { [code |-> "ERR_BAD_RESPONSE", status |-> st] : st \in Statuses }

\* ------------------------------------------------------------ handleSubmit
null == <<>>

\* the test in front of the alert
rejectsKeyword(b, k) == IF b = "App.tsx" THEN k = <<>> ELSE trim(k) = <<>>

\* a submit button that is never disabled
submitNeverDisabled == FALSE

\* <button type="submit" disabled={isLoading}>
submitDisabled == isLoading

\* resetOnSubmit without setError(null)
resetOnSubmitKeepsError(old) ==
    [isLoading |-> TRUE, productos |-> <<>>, error |-> old.error]

\* resetOnSubmit without setProductos([])
resetOnSubmitKeepsProductos(old) ==
    [isLoading |-> TRUE, productos |-> old.productos, error |-> null]

\* the three setters in front of the try block
resetOnSubmit(old) == [isLoading |-> TRUE, productos |-> <<>>, error |-> null]

\* setProductos's argument: <<is it an array, its elements>>
responseProducts(b, body) ==
    IF b = "App.tsx"
    THEN <<body.hasData, body.data>>
    ELSE IF body.hasData THEN <<TRUE, body.data>> ELSE <<TRUE, <<>>>>

\* a try block without setIsLoading(false)
loadingAfterResponseStays == TRUE

\* the end of the try block: isLoading after a response
loadingAfterResponse == FALSE

\* the message of the catch block, as the pieces of its template
errorMessage(b, err) ==
    IF b = "App.tsx"
    THEN IF err.code = "ECONNABORTED"
         THEN <<"La busqueda tardo demasiado y fue cancelada. Intenta de nuevo.">>
         ELSE <<"Error al cargar los datos. Revisa la consola.">>
    ELSE IF err.code = "ECONNABORTED"
         THEN <<"La busqueda tardo demasiado y fue cancelada (Timeout). Intenta de nuevo.">>
         ELSE IF err.status # 0
              THEN <<"Error del servidor (", ToString(err.status),
                     "). Intenta de nuevo mas tarde.">>
              ELSE <<"No se pudo conectar al backend. El servicio puede estar inactivo o tardando mucho.">>

\* a catch block without setIsLoading(false)
catchKeepsLoading(b, err) == [error |-> errorMessage(b, err), isLoading |-> TRUE]

\* the catch block
catch(b, err) == [error |-> errorMessage(b, err), isLoading |-> FALSE]

\* ------------------------------------------------------------------ state
\* the component renders as long as productos is an array: productos.filter
\* throws on undefined, and nothing catches it
mounted == productosIsArray

\* events reach the component while it is mounted and no alert is open
\* (alert is modal and blocks the thread)
live == mounted /\ ~alertOpen

filteredProducts ==
    getFilteredProducts(build, productos, nameFilter, pharmacyFilter,
                        priceFilter, offersFilter)

Init ==
    /\ build \in Builds
    /\ keyword = <<"j", "a", "b", "o", "n">>
    /\ productos = <<>>
    /\ productosIsArray = TRUE
    /\ isLoading = FALSE
    /\ error = null
    /\ nameFilter = <<>>
    /\ pharmacyFilter = ""
    /\ priceFilter = 300
    /\ offersFilter = FALSE
    /\ inflight = {}
    /\ issued = 0
    /\ finalized = 0
    /\ alertOpen = FALSE

fetchState == <<productos, productosIsArray, isLoading, error, inflight, issued, finalized>>

filterState == <<nameFilter, pharmacyFilter, priceFilter, offersFilter>>

setKeyword ==
    /\ live
    /\ \E k \in Keywords : keyword' = k
    /\ UNCHANGED <<build, fetchState, filterState, alertOpen>>

setNameFilter ==
    /\ live
    /\ \E f \in NameFilters : nameFilter' = f
    /\ UNCHANGED <<build, keyword, fetchState, pharmacyFilter, priceFilter,
                   offersFilter, alertOpen>>

setPharmacyFilter ==
    /\ live
    /\ \E f \in PharmacyFilters : pharmacyFilter' = f
    /\ UNCHANGED <<build, keyword, fetchState, nameFilter, priceFilter,
                   offersFilter, alertOpen>>

setPriceFilter ==
    /\ live
    /\ \E f \in PriceFilters : priceFilter' = f
    /\ UNCHANGED <<build, keyword, fetchState, nameFilter, pharmacyFilter,
                   offersFilter, alertOpen>>

setOffersFilter ==
    /\ live
    /\ offersFilter' = ~offersFilter
    /\ UNCHANGED <<build, keyword, fetchState, nameFilter, pharmacyFilter,
                   priceFilter, alertOpen>>

\* handleSubmit with a keyword it refuses: the alert, and nothing else
submitRejected ==
    /\ live
    /\ ~submitDisabled
    /\ rejectsKeyword(build, keyword)
    /\ alertOpen' = TRUE
    /\ UNCHANGED <<build, keyword, fetchState, filterState>>

\* handleSubmit up to the await: the state is reset and the request leaves
submitAccepted ==
    /\ live
    /\ ~submitDisabled
    /\ ~rejectsKeyword(build, keyword)
    /\ issued < MaxRequests
    /\ LET new == resetOnSubmit([isLoading |-> isLoading, productos |-> productos,
                                 error |-> error])
       IN  /\ isLoading' = new.isLoading
           /\ productos' = new.productos
           /\ error' = new.error
    /\ productosIsArray' = TRUE
    /\ issued' = issued + 1
    /\ inflight' = inflight \cup {issued + 1}
    /\ UNCHANGED <<build, keyword, finalized, filterState, alertOpen>>

handleSubmit == submitRejected \/ submitAccepted

dismissAlert ==
    /\ alertOpen
    /\ alertOpen' = FALSE
    /\ UNCHANGED <<build, keyword, fetchState, filterState>>

\* handleSubmit after the await, request r answered with a 2xx body
resolved(r, body) ==
    /\ live
    /\ r \in inflight
    /\ productosIsArray' = responseProducts(build, body)[1]
    /\ productos' = responseProducts(build, body)[2]
    /\ isLoading' = loadingAfterResponse
    /\ inflight' = inflight \ {r}
    /\ finalized' = finalized + 1
    /\ UNCHANGED <<build, keyword, error, issued, filterState, alertOpen>>

\* handleSubmit after the await, request r rejected with err
rejected(r, err) ==
    /\ live
    /\ r \in inflight
    /\ error' = catch(build, err).error
    /\ isLoading' = catch(build, err).isLoading
    /\ inflight' = inflight \ {r}
    /\ finalized' = finalized + 1
    /\ UNCHANGED <<build, keyword, productos, productosIsArray, issued,
                   filterState, alertOpen>>

response == \E r \in inflight : \E body \in Bodies : resolved(r, body)

failure == \E r \in inflight : \E err \in Errors : rejected(r, err)

settle == response \/ failure

Next ==
    \/ setKeyword
    \/ setNameFilter
    \/ setPharmacyFilter
    \/ setPriceFilter
    \/ setOffersFilter
    \/ submitRejected
    \/ submitAccepted
    \/ dismissAlert
    \/ response
    \/ failure

Spec == Init /\ [][Next]_vars

\* a request that axios sent is answered, fails, or runs into the timeout
\* of 300000 ms
FairSpec == Spec /\ WF_vars(settle)

TypeOK ==
    /\ build \in Builds
    /\ keyword \in Keywords
    /\ productos \in ProductLists
    /\ productosIsArray \in BOOLEAN
    /\ isLoading \in BOOLEAN
    /\ nameFilter \in NameFilters
    /\ pharmacyFilter \in PharmacyFilters
    /\ priceFilter \in PriceFilters
    /\ offersFilter \in BOOLEAN
    /\ inflight \subseteq 1..issued
    /\ issued \in 0..MaxRequests
    /\ finalized \in 0..issued
    /\ alertOpen \in BOOLEAN

\* ================================================================ claims
resultsPresent == productosIsArray /\ productos # <<>>

errorPresent == error # null

Count(b) == IF b THEN 1 ELSE 0

\* the price the specification extracts: the first numeric token of
\* Precio_Oferta, or 0 when it has none
extractedPrice(product) ==
    LET token == matchNumber(product.Precio_Oferta)
    IN  IF token = <<>> THEN 0 ELSE parseFloat(token[1])[1]

\* position of a product in the raw list
Position(product) == CHOOSE i \in 1..Len(productos) : productos[i] = product

\* the message names the status code
Carries(message, status) ==
    \E i \in 1..Len(message) : message[i] = ToString(status)

NoArrayBody == [hasData |-> FALSE, data |-> <<>>]

\* C1 as stated: in every reachable state exactly one of loading, error
\* present and results present holds.
C1_ExactlyOne ==
    Count(isLoading) + Count(errorPresent) + Count(resultsPresent) = 1

\* C1 amended: in every reachable state at most one of loading, error
\* present and results present holds (none of them holds before the first
\* search and after a search that brought no products).
C1_AtMostOne ==
    Count(isLoading) + Count(errorPresent) + Count(resultsPresent) <= 1

C1_Witness == isLoading /\ finalized >= 1 /\ ~errorPresent /\ ~resultsPresent

\* C2: a submission with an empty or all-blank keyword issues no request
\* and leaves loading, error and the raw product list unchanged.
C2_BlankKeywordNoRequest ==
    [][(handleSubmit /\ trim(keyword) = <<>>)
         => /\ issued' = issued
            /\ inflight' = inflight
            /\ UNCHANGED <<isLoading, error, productos, productosIsArray>>]_vars

\* C3: whenever loading is true the raw product list is the empty list.
C3_LoadingHasNoResults == isLoading => (productosIsArray /\ productos = <<>>)

C3_Witness == isLoading /\ finalized >= 1 /\ productos = <<>>

\* C4: a fetch that ends in an error leaves loading false, an error present
\* and the raw list empty, and issues no further request; the state stays
\* so as long as the error is present.
C4_ErrorIsTerminal ==
    /\ [](errorPresent =>
            ~isLoading /\ productosIsArray /\ productos = <<>> /\ inflight = {})
    /\ [][failure =>
            /\ ~isLoading'
            /\ errorPresent'
            /\ productos' = <<>>
            /\ issued' = issued
            /\ inflight' = {}]_vars

C4_Witness == errorPresent /\ ~isLoading /\ finalized >= 1

\* C5: the failures are told apart by the error they leave: two different
\* failures never leave the same error, and the error left by an answer
\* with status s names s.
C5_ErrorsDistinguishable ==
    [][\A r \in inflight : \A err \in Errors :
          rejected(r, err) =>
             /\ \A other \in Errors :
                   other # err => error' # errorMessage(build, other)
             /\ err.status # 0 => Carries(error', err.status)]_vars

\* C6: a 2xx answer without the product array leaves the raw list equal to
\* the empty list, no error, loading false, and an empty projected view.
C6_MissingArrayIsEmpty ==
    [][\A r \in inflight :
          resolved(r, NoArrayBody) =>
             /\ productosIsArray'
             /\ productos' = <<>>
             /\ error' = null
             /\ ~isLoading'
             /\ filteredProducts' = <<>>]_vars

\* C7: the projected view is ascending in the extracted price (the first
\* numeric token of Precio_Oferta, or 0), and products of equal extracted
\* price keep the order they have in the raw list.
C7_SortedByExtractedPrice ==
    productosIsArray =>
        \A i, j \in 1..Len(filteredProducts) :
            i < j =>
                /\ extractedPrice(filteredProducts[i])
                     <= extractedPrice(filteredProducts[j])
                /\ extractedPrice(filteredProducts[i])
                     = extractedPrice(filteredProducts[j])
                   => Position(filteredProducts[i]) < Position(filteredProducts[j])

\* C8: the products of the projected view are exactly the raw products
\* that pass every active filter: the name contains nameFilter without
\* regard to case, the pharmacy is pharmacyFilter unless that is "Todas",
\* the extracted price is at most maxPrice, and, with offersOnly, the
\* regular price is not "No disponible".
C8_ExactlyThePassing ==
    productosIsArray =>
        { filteredProducts[i] : i \in 1..Len(filteredProducts) }
        = { product \in { productos[i] : i \in 1..Len(productos) } :
              /\ nameFilter # <<>> =>
                    includes(toLowerCase(product.Producto), toLowerCase(nameFilter))
              /\ pharmacyFilter # "" => product.Farmacia = pharmacyFilter
              /\ extractedPrice(product) <= 100 * priceFilter
              /\ offersFilter => product.Precio_Regular # "No disponible" }

\* C9: an accepted submission issues exactly one request, and the request
\* is finalized exactly once, after which loading is false.
C9_FinalizedExactlyOnce ==
    /\ [](/\ issued = finalized + Cardinality(inflight)
          /\ isLoading <=> inflight # {})
    /\ [][submitAccepted => issued' = issued + 1 /\ inflight' = {issued + 1}]_vars
    /\ [][finalized' # finalized => finalized' = finalized + 1 /\ ~isLoading']_vars
    /\ \A n \in 1..MaxRequests :
          (n \in inflight) ~> (finalized = n /\ n \notin inflight /\ ~isLoading)

C9_Witness == finalized >= 2 /\ issued = finalized /\ ~isLoading

\* C10: at most one fetch is in flight, no request starts while loading is
\* true, and a fetch that completes is the one of the latest submission.
C10_OneFetchInFlight ==
    /\ [](Cardinality(inflight) <= 1 /\ inflight \subseteq {issued})
    /\ [][isLoading => issued' = issued]_vars
    /\ [][settle => inflight = {issued}]_vars

C10_Witness == isLoading /\ inflight = {issued} /\ issued >= 2

====
